---- MODULE Spec2Model ----
(***************************************************************************)
(* esm_version_checker (esm_versions): the console script of               *)
(* src/esm_version_checker/cli.py as a state machine.                      *)
(*                                                                         *)
(* Python strings are sequences of one-character strings, so that          *)
(* str.split, str.replace, str.strip, the "in" test and version parsing    *)
(* are computed as the code computes them.  None is a value of its own.    *)
(***************************************************************************)
EXTENDS Integers, Sequences, FiniteSets, TLC

(***************************************************************************)
(* Python values and builtins                                              *)
(***************************************************************************)
None == <<"<None>">>

EmptyStr == <<>>

\* s[i:] (1-based i)
Tail_(s, i) == SubSeq(s, i, Len(s))

\* s.startswith(p)
StartsWith(s, p) == Len(p) <= Len(s) /\ SubSeq(s, 1, Len(p)) = p

\* s.find(sub): the first index at which sub occurs in s, 0 when it does not
Find(s, sub) ==
  LET hits == {i \in 1..(Len(s) - Len(sub) + 1) : SubSeq(s, i, i + Len(sub) - 1) = sub}
  IN IF hits = {} THEN 0 ELSE CHOOSE i \in hits : \A j \in hits : i <= j

\* sub in s
Contains(s, sub) == sub = <<>> \/ Find(s, sub) > 0

\* s.split(sep): split on every occurrence of sep, left to right
RECURSIVE Split(_, _)
Split(s, sep) ==
  LET i == Find(s, sep)
  IN IF i = 0 THEN <<s>>
     ELSE <<SubSeq(s, 1, i - 1)>> \o Split(Tail_(s, i + Len(sep)), sep)

\* s.replace(old, new): every non-overlapping occurrence, left to right
RECURSIVE Replace(_, _, _)
Replace(s, old, new) ==
  LET i == Find(s, old)
  IN IF i = 0 THEN s
     ELSE SubSeq(s, 1, i - 1) \o new \o Replace(Tail_(s, i + Len(old)), old, new)

\* sep.join(parts)
RECURSIVE Join(_, _)
Join(parts, sep) ==
  IF parts = <<>> THEN <<>>
  ELSE IF Len(parts) = 1 THEN parts[1]
  ELSE parts[1] \o sep \o Join(Tail(parts), sep)

\* s.strip(): leading and trailing whitespace removed
RECURSIVE Strip(_)
Strip(s) ==
  IF s = <<>> THEN s
  ELSE IF s[1] = " " THEN Strip(Tail(s))
  ELSE IF s[Len(s)] = " " THEN Strip(SubSeq(s, 1, Len(s) - 1))
  ELSE s

Digits == {"0", "1", "2", "3", "4", "5", "6", "7", "8", "9"}

DigitVal(c) ==
  CASE c = "0" -> 0 [] c = "1" -> 1 [] c = "2" -> 2 [] c = "3" -> 3 [] c = "4" -> 4
    [] c = "5" -> 5 [] c = "6" -> 6 [] c = "7" -> 7 [] c = "8" -> 8 [] c = "9" -> 9

IsNumber(s) == s # <<>> /\ \A i \in 1..Len(s) : s[i] \in Digits

\* int(s) of a string of decimal digits
RECURSIVE ToInt(_)
ToInt(s) ==
  IF s = <<>> THEN 0
  ELSE 10 * ToInt(SubSeq(s, 1, Len(s) - 1)) + DigitVal(s[Len(s)])

(***************************************************************************)
(* packaging.version.parse and the ordering of Version objects             *)
(***************************************************************************)
\* a PEP 440 release "N(.N)*", with the optional leading "v" the parser allows
BareRelease(s) == IF StartsWith(s, <<"v">>) THEN Tail(s) ELSE s

IsVersionString(s) ==
  /\ s # None
  /\ \A i \in 1..Len(Split(BareRelease(s), <<".">>)) :
        IsNumber(Split(BareRelease(s), <<".">>)[i])

RECURSIVE StripTrailingZeros(_)
StripTrailingZeros(t) ==
  IF t # <<>> /\ t[Len(t)] = 0 THEN StripTrailingZeros(SubSeq(t, 1, Len(t) - 1)) ELSE t

\* parse(s)._key for a release-only version: the release numbers, trailing
\* zeros dropped
version_parse(s) ==
  LET parts == Split(BareRelease(s), <<".">>)
  IN StripTrailingZeros([i \in 1..Len(parts) |-> ToInt(parts[i])])

\* tuple comparison a < b
RECURSIVE TupleLess(_, _)
TupleLess(a, b) ==
  IF b = <<>> THEN FALSE
  ELSE IF a = <<>> THEN TRUE
  ELSE IF a[1] # b[1] THEN a[1] < b[1]
  ELSE TupleLess(Tail(a), Tail(b))

\* version_parse(a) < version_parse(b)
VersionLess(a, b) == TupleLess(version_parse(a), version_parse(b))

(***************************************************************************)
(* String constants of the program                                         *)
(***************************************************************************)
esm_archiving == <<"e", "s", "m", "_", "a", "r", "c", "h", "i", "v", "i", "n", "g">>
esm_calendar == <<"e", "s", "m", "_", "c", "a", "l", "e", "n", "d", "a", "r">>
esm_cleanup == <<"e", "s", "m", "_", "c", "l", "e", "a", "n", "u", "p">>
esm_database == <<"e", "s", "m", "_", "d", "a", "t", "a", "b", "a", "s", "e">>
esm_environment == <<"e", "s", "m", "_", "e", "n", "v", "i", "r", "o", "n", "m", "e", "n", "t">>
esm_master == <<"e", "s", "m", "_", "m", "a", "s", "t", "e", "r">>
esm_motd == <<"e", "s", "m", "_", "m", "o", "t", "d">>
esm_parser == <<"e", "s", "m", "_", "p", "a", "r", "s", "e", "r">>
esm_plugin_manager == <<"e", "s", "m", "_", "p", "l", "u", "g", "i", "n", "_", "m", "a", "n", "a", "g", "e", "r">>
esm_profile == <<"e", "s", "m", "_", "p", "r", "o", "f", "i", "l", "e">>
esm_rcfile == <<"e", "s", "m", "_", "r", "c", "f", "i", "l", "e">>
esm_runscripts == <<"e", "s", "m", "_", "r", "u", "n", "s", "c", "r", "i", "p", "t", "s">>
esm_tools == <<"e", "s", "m", "_", "t", "o", "o", "l", "s">>
esm_utilities == <<"e", "s", "m", "_", "u", "t", "i", "l", "i", "t", "i", "e", "s">>
esm_version_checker == <<"e", "s", "m", "_", "v", "e", "r", "s", "i", "o", "n", "_", "c", "h", "e", "c", "k", "e", "r">>
esm_versions == <<"e", "s", "m", "_", "v", "e", "r", "s", "i", "o", "n", "s">>

\* GlobalVars.ESM_TOOLS_MODULES, the hard-coded package list
ESM_TOOLS_MODULES ==
  <<esm_archiving,
    esm_calendar,
    esm_cleanup,
    esm_database,
    esm_environment,
    esm_master,
    esm_motd,
    esm_parser,
    esm_plugin_manager,
    esm_profile,
    esm_rcfile,
    esm_runscripts,
    esm_tools,
    esm_utilities,
    esm_version_checker>>

\* the placeholder that replaces the home directory in file_path
HomeToken == <<"$", "{", "H", "O", "M", "E", "}">>
\* the version text of a package that cannot be imported
NotInstalledStr == <<"N", "o", "t", " ", "i", "n", "s", "t", "a", "l", "l", "e", "d">>
\* suffix of the link-marker file of an editable install
EggLinkSuffix == <<".", "e", "g", "g", "-", "l", "i", "n", "k">>
\* annotation of a revision with local changes
UncommittedSuffix == <<" ", "(", "u", "n", "c", "o", "m", "m", "i", "t", "t", "e", "d", " ", "c", "h", "a", "n", "g", "e", "s", ")">>
\* branch text of a detached HEAD
DetachedPrefix == <<"D", "E", "T", "A", "C", "H", "E", "D", " ", "a", "t", " ">>
\* describe text when git fails
ErrorStr == <<"E", "r", "r", "o", "r">>
\* the two branches pip_or_pull pulls on
release == <<"r", "e", "l", "e", "a", "s", "e">>
develop == <<"d", "e", "v", "e", "l", "o", "p">>
\* the default upgrade target
all_ == <<"a", "l", "l">>


(***************************************************************************)
(* The environment the script reads: inputs drawn from small sets          *)
(***************************************************************************)
\* the packages that may be installed on the machine; every other name of
\* the list fails to import with ModuleNotFoundError
Available == {esm_master, esm_tools, esm_version_checker}

\* a branch that is neither release nor develop
feature == <<"f", "e", "a", "t", "u", "r", "e">>

\* the user's home directory, os.path.realpath(os.path.expanduser("~"))
home_dir == <<"/", "h", "o", "m", "e", "/", "u">>

\* hexsha of the HEAD commit of a checkout
HeadSha == <<"a", "1", "b", "2", "c", "3", "d", "4", "e", "5">>

\* values of a module's __version__ (None: the attribute is missing); the
\* value is drawn where the resolver reads it, once per module and run
ModuleVersions == {None, <<"4", ".", "7", ".", "0">>, <<"4", ".", "1", "0", ".", "0">>}

\* realpath of a module's __path__[0]: the package directory of a checkout
\* or of an install under the home directory
ModulePaths(tool) == {home_dir \o <<"/">> \o tool \o <<"/">> \o tool}

\* the module objects importlib.import_module can return for a tool
Modules(tool) == [path : ModulePaths(tool)]

\* text of the first release link of the tags page
TagTexts == {<<" ", "v", "4", ".", "1", "0", ".", "0", " ">>, <<"4", ".", "7", ".", "0">>}

\* what the request for the tags page can produce: the request fails, the
\* page lacks the commit container, the first h4 holds no release link, or
\* the link text
PageOutcomes == {<<"RequestException">>, <<"NoContainer">>, <<"NoLink">>} \cup TagTexts

\* the states of a git checkout: working tree and HEAD (None: detached)
RepoStates ==
  [kind : {"repo"}, tree : {"clean", "untracked", "modified"},
   head : {release, develop, feature, None}]

InvalidRepo == [kind |-> "invalid"]

\* repo.is_dirty(): modified tracked files (untracked files do not count)
is_dirty(repo) == repo.tree = "modified"

\* repo.untracked_files is not empty
untracked_files(repo) == repo.tree = "untracked"

(***************************************************************************)
(* Events: what the script prints and the external commands it runs        *)
(***************************************************************************)
Warn(what, tool) == [type |-> "warning", what |-> what, arg |-> tool]

\* pip install --upgrade of a target, and how the command ended
PipInstall(target, status) ==
  [type |-> "pip_install", what |-> status, arg |-> target]

GitPull(tool) == [type |-> "git_pull", what |-> "pull", arg |-> tool]

(***************************************************************************)
(* 4.1 Editable-install detector                                           *)
(***************************************************************************)
\* name of the link-marker file of a distribution
egg_link_name(dist) == Replace(dist, <<"_">>, <<"-">>) \o EggLinkSuffix

\* dist_is_editable(dist): some directory of sys.path holds the marker file
dist_is_editable(dist, path) ==
  \E i \in 1..Len(path) : egg_link_name(dist) \in path[i]

\* editable_dist_location(dist): what reading the first marker file found
\* gives: "ok" (the first line, stripped: the checkout of the distribution),
\* IndexError (the file is empty) or OSError (it cannot be read); None when
\* no marker is found
editable_dist_location(dist, path) ==
  IF dist_is_editable(dist, path) THEN {"ok", "IndexError", "OSError"} ELSE {"None"}

(***************************************************************************)
(* get_latest_version                                                      *)
(***************************************************************************)
\* the result of get_latest_version(tool) for one outcome of the request
get_latest_version(tool, page) ==
  IF page = <<"RequestException">>
  THEN [kind |-> "exit", value |-> None,
        out |-> <<Warn("latest_version_unavailable", tool)>>]
  ELSE IF page = <<"NoContainer">>
  THEN [kind |-> "raise", value |-> <<"AttributeError">>, out |-> <<>>]
  ELSE IF page = <<"NoLink">>
  THEN [kind |-> "return", value |-> None,
        out |-> <<Warn("cannot_read_version", tool)>>]
  ELSE LET version == Strip(page)
       IN [kind |-> "return",
           value |-> IF StartsWith(version, <<"v">>) THEN Tail(version) ELSE version,
           out |-> <<>>]

(***************************************************************************)
(* 4.2 Package attribute resolver                                          *)
(***************************************************************************)
\* importlib.import_module(tool): a module already imported comes from
\* sys.modules; otherwise the import succeeds, or fails with
\* ModuleNotFoundError or with another ImportError
import_module(tool, mods) ==
  IF tool \in DOMAIN mods THEN {[status |-> "ok", module |-> mods[tool]]}
  ELSE IF tool \notin Available
  THEN {[status |-> "ModuleNotFoundError", module |-> None]}
  ELSE {[status |-> "ModuleNotFoundError", module |-> None],
        [status |-> "ImportError", module |-> None]}
       \cup {[status |-> "ok", module |-> m] : m \in Modules(tool)}

\* sys.modules after an import
Imported(tool, imp, mods) ==
  IF imp.status = "ok" /\ tool \notin DOMAIN mods THEN (tool :> imp.module) @@ mods
  ELSE mods

\* Repo(path): the state of the checkout at the path, or InvalidRepo when
\* the path is no git repository
OpenRepo(path) == {InvalidRepo} \cup RepoStates

\* file_path: the directory that holds the package directory, with the home
\* directory collapsed to ${HOME}
FilePath(module) ==
  LET parts == Split(module.path, <<"/">>)
      parent == Join(SubSeq(parts, 1, Len(parts) - 1), <<"/">>) \o <<"/">>
  IN IF Contains(parent, home_dir) THEN Replace(parent, home_dir, HomeToken)
     ELSE parent

\* describe: the short revision, marked when the tree has local changes;
\* "Error" when git fails
Describe(repo, git_error) ==
  IF git_error THEN ErrorStr
  ELSE IF untracked_files(repo) \/ is_dirty(repo)
  THEN SubSeq(HeadSha, 1, 6) \o UncommittedSuffix
  ELSE SubSeq(HeadSha, 1, 6)

\* branch: the active branch, or "DETACHED at <sha>"
Branch(repo) ==
  IF repo.head # None THEN repo.head ELSE DetachedPrefix \o SubSeq(HeadSha, 1, 7)

\* the initial values of the resolver's locals instead of None
NotImportableAttrsInitialValues ==
  [version |-> NotInstalledStr, file_path |-> EmptyStr, branch |-> EmptyStr,
   describe |-> EmptyStr, latest_version |-> EmptyStr, upgrade_required |-> FALSE,
   importable |-> FALSE]

\* the record of a package that cannot be imported
NotImportableAttrs ==
  [version |-> NotInstalledStr, file_path |-> None, branch |-> None,
   describe |-> None, latest_version |-> None, upgrade_required |-> FALSE,
   importable |-> FALSE]

\* upgrade_required = version_parse(version) < version_parse(latest_version)
UpgradeRequired(version, latest_version) == VersionLess(version, latest_version)

\* what a call of the resolver observed and how it ended
Obs(tool, import, editable, version, latest_version) ==
  [tool |-> tool, import |-> import, editable |-> editable,
   version |-> version, latest_version |-> latest_version]

Outcome(kind, value, mods, out, obs) ==
  [kind |-> kind, value |-> value, sys_modules |-> mods, out |-> out, obs |-> obs]

\* the editable branch of the resolver, after the marker was read and the
\* checkout opened: revision, branch, latest version, comparison
EditableAttrs(tool, version, file_path, repo, mods) ==
  UNION {
    LET describe == Describe(repo, git_error)
        branch == Branch(repo)
    IN { LET latest == get_latest_version(tool, page)
         IN IF latest.kind # "return"
            THEN Outcome(latest.kind, latest.value, mods, latest.out,
                         Obs(tool, "ok", TRUE, version, EmptyStr))
            ELSE IF version = None \/ latest.value = None
            THEN Outcome("raise", <<"TypeError">>, mods, latest.out,
                         Obs(tool, "ok", TRUE, version, latest.value))
            ELSE Outcome("return",
                         [version |-> version, file_path |-> file_path,
                          branch |-> branch, describe |-> describe,
                          latest_version |-> latest.value,
                          upgrade_required |-> UpgradeRequired(version, latest.value),
                          importable |-> TRUE],
                         mods, latest.out,
                         Obs(tool, "ok", TRUE, version, latest.value))
         : page \in PageOutcomes }
    : git_error \in BOOLEAN }

\* the resolver after a successful import
ImportableAttrs(tool, module, version, mods, path) ==
  LET file_path == FilePath(module)
  IN IF ~dist_is_editable(tool, path)
     THEN {Outcome("return",
                   [version |-> version, file_path |-> file_path,
                    branch |-> EmptyStr, describe |-> EmptyStr,
                    latest_version |-> EmptyStr, upgrade_required |-> FALSE,
                    importable |-> TRUE],
                   mods, <<>>, Obs(tool, "ok", FALSE, version, EmptyStr))}
     ELSE UNION {
            IF loc # "ok"
            THEN {Outcome("raise", <<loc>>, mods, <<>>,
                          Obs(tool, "ok", TRUE, version, EmptyStr))}
            ELSE UNION {
                   IF repo = InvalidRepo
                   THEN {Outcome("raise", <<"InvalidGitRepositoryError">>, mods, <<>>,
                                 Obs(tool, "ok", TRUE, version, EmptyStr))}
                   ELSE EditableAttrs(tool, version, file_path, repo, mods)
                   : repo \in OpenRepo(loc) }
            : loc \in editable_dist_location(tool, path) }

\* get_esm_package_attributes(tool): every way the call can end, given
\* sys.modules and sys.path
get_esm_package_attributes(tool, mods, path) ==
  UNION {
    IF imp.status = "ImportError"
    THEN {Outcome("raise", <<"ImportError">>, mods, <<>>,
                  Obs(tool, imp.status, FALSE, EmptyStr, EmptyStr))}
    ELSE IF imp.status = "ModuleNotFoundError"
    THEN {Outcome("return", NotImportableAttrs, mods, <<>>,
                  Obs(tool, imp.status, FALSE, EmptyStr, EmptyStr))}
    ELSE UNION { ImportableAttrs(tool, imp.module, version,
                                 Imported(tool, imp, mods), path)
                 : version \in ModuleVersions }
    : imp \in import_module(tool, mods) }

(***************************************************************************)
(* Bounds of the model                                                     *)
(***************************************************************************)
\* number of link-marker files on the whole of sys.path
MaxMarkers == 1

\* number of entries of the user site-packages directory
MaxEntries == 2

(***************************************************************************)
(* Inputs: command lines and the machine's state                           *)
(***************************************************************************)
\* a repository of the organization that is no package of the fixed list
esm_tests == <<"e", "s", "m", "_", "t", "e", "s", "t", "s">>

\* what the organization's repository listing returns when it answers
GithubLists ==
  {<<esm_tools, esm_master, esm_tests>>, <<esm_version_checker, esm_tools>>}

\* values of check --package (None: the option is not given)
CheckPackages == {None, esm_master, esm_tools, esm_parser, esm_versions}

\* esm_versions [--from_github] check [--package NAME]
CheckArgvs ==
  {[command |-> "check", from_github |-> g, package |-> p, tool_to_upgrade |-> None] :
     g \in BOOLEAN, p \in CheckPackages}

\* version parts of an upgrade target: a version, a word, and two texts that
\* hold a separator themselves
VersionSpecs ==
  {<<"4", ".", "1", "0", ".", "2">>, <<"b", "o", "g", "u", "s">>,
   <<"1", "=", "2">>, <<"1", "=", "=", "2">>}

\* TARGET of upgrade: all, a name, name=version or name==version
Targets ==
  {all_, esm_master, esm_tools, esm_parser, esm_versions, esm_tests}
  \cup {name \o sep \o v : name \in {esm_master, esm_tools},
                           sep \in {<<"=">>, <<"=", "=">>}, v \in VersionSpecs}

\* esm_versions [--from_github] upgrade [TARGET]
UpgradeArgvs ==
  {[command |-> "upgrade", from_github |-> g, package |-> None, tool_to_upgrade |-> t] :
     g \in BOOLEAN, t \in Targets}

\* esm_versions [--from_github] clean
CleanArgvs ==
  {[command |-> "clean", from_github |-> g, package |-> None, tool_to_upgrade |-> None] :
     g \in BOOLEAN}

Argvs == CheckArgvs \cup UpgradeArgvs \cup CleanArgvs

\* the link-marker file names that can lie in a directory of sys.path
MarkerNames == {egg_link_name(t) : t \in Available}

\* sys.path: for each of its directories (the site-packages directory, then
\* the user site), the marker files it holds
SysPaths ==
  {p \in [{1, 2} -> SUBSET MarkerNames] :
     Cardinality({d \in {1, 2} \X MarkerNames : d[2] \in p[d[1]]}) <= MaxMarkers}

(***************************************************************************)
(* State                                                                   *)
(***************************************************************************)
VARIABLES
  pc,                   \* position of the process
  argv,                 \* the command line
  sys_path,             \* sys.path (marker files per directory)
  github_repos,         \* the organization's repository listing
  sys_modules,          \* sys.modules: the modules imported so far
  from_github,          \* global_vars.from_github
  esm_tools_installed,  \* global_vars.esm_tools_installed
  esm_tools_modules,    \* the package list of the running command
  index,                \* position of the running loop in its list
  attr_dict_all,        \* check: the inventory, in insertion order
  table,                \* check: the rows of the table
  extra_messages,       \* check: the upgrade hints
  esm_tools_repo,       \* upgrade: the checkout pip_or_pull opened
  remove_list,          \* clean: the paths to remove
  events,               \* what was printed and run, in order
  exit_code,            \* exit status of the process (None while it runs)
  raised,               \* the exception that ended the process (None if none)
  resolved              \* what the last call of the resolver observed

vars ==
  <<pc, argv, sys_path, github_repos, sys_modules, from_github,
    esm_tools_installed, esm_tools_modules, index, attr_dict_all, table,
    extra_messages, esm_tools_repo, remove_list, events, exit_code, raised,
    resolved>>

\* an empty dict
EmptyDict == <<>>

NoCall == [tool |-> None, kind |-> "none"]

NoRepo == [kind |-> "none"]

Init ==
  /\ pc = "main"
  /\ argv \in Argvs
  /\ sys_path \in SysPaths
  /\ github_repos \in IF argv.from_github THEN GithubLists ELSE {<<>>}
  /\ sys_modules = EmptyDict
  /\ from_github = FALSE
  /\ esm_tools_installed = EmptyDict
  /\ esm_tools_modules = <<>>
  /\ index = 0
  /\ attr_dict_all = <<>>
  /\ table = <<>>
  /\ extra_messages = <<>>
  /\ esm_tools_repo = NoRepo
  /\ remove_list = <<>>
  /\ events = <<>>
  /\ exit_code = None
  /\ raised = None
  /\ resolved = NoCall

(***************************************************************************)
(* Process exit                                                            *)
(***************************************************************************)
ExitCodes == {0, 1}

\* sys.exit(code): the process ends with this status
SysExit(code, out) ==
  /\ pc' = "exit"
  /\ exit_code' = code
  /\ raised' = None
  /\ events' = events \o out

\* an exception nobody catches: traceback, exit status 1
Uncaught(exc, out) ==
  /\ pc' = "exit"
  /\ exit_code' = 1
  /\ raised' = exc
  /\ events' = events \o out

(***************************************************************************)
(* get_esm_packages and main                                               *)
(***************************************************************************)
Range(s) == {s[i] : i \in 1..Len(s)}

\* get_esm_packages(): the list, or "exit" when the GitHub request is
\* rejected (sys.exit(1) after the error message)
get_esm_packages(github) ==
  IF github THEN {[kind |-> "exit", list |-> <<>>],
                  [kind |-> "return", list |-> github_repos]}
  ELSE {[kind |-> "return", list |-> ESM_TOOLS_MODULES]}

GithubError == [type |-> "error", what |-> "github_rejected", arg |-> None]

\* main(): the group callback that runs before every command
Main ==
  /\ pc = "main"
  /\ from_github' = argv.from_github
  /\ \E r \in get_esm_packages(argv.from_github) :
       IF r.kind = "exit"
       THEN /\ SysExit(1, <<GithubError>>)
            /\ UNCHANGED esm_tools_installed
       ELSE /\ esm_tools_installed' = [tool \in Range(r.list) |-> FALSE]
            /\ pc' = argv.command
            /\ UNCHANGED <<events, exit_code, raised>>
  /\ UNCHANGED <<argv, sys_path, github_repos, sys_modules,
                 esm_tools_modules, index, attr_dict_all, table, extra_messages,
                 esm_tools_repo, remove_list, resolved>>

(***************************************************************************)
(* 4.4 check: the inventory report                                         *)
(***************************************************************************)
NotFoundError(package) == [type |-> "error", what |-> "package_not_found", arg |-> package]

\* check, up to the loop: the package list and the --package test
CheckBegin ==
  /\ pc = "check"
  /\ \E r \in get_esm_packages(from_github) :
       IF r.kind = "exit"
       THEN /\ SysExit(1, <<GithubError>>)
            /\ UNCHANGED esm_tools_modules
       ELSE IF argv.package # None /\ argv.package \notin Range(r.list)
       THEN /\ SysExit(1, <<NotFoundError(argv.package)>>)
            /\ UNCHANGED esm_tools_modules
       ELSE /\ esm_tools_modules' =
                 IF argv.package # None THEN <<argv.package>> ELSE r.list
            /\ pc' = "check_loop"
            /\ UNCHANGED <<events, exit_code, raised>>
  /\ index' = 1
  /\ attr_dict_all' = <<>>
  /\ table' = <<>>
  /\ extra_messages' = <<>>
  /\ UNCHANGED <<argv, sys_path, github_repos, sys_modules, from_github,
                 esm_tools_installed, esm_tools_repo, remove_list, resolved>>

\* a dict that puts a new key in front of the older ones
DictSetInFront(d, key, value) == <<value>> \o d

\* d[key] = value on a dict kept as the sequence of its items
DictSet(d, key, value) ==
  IF \E i \in 1..Len(d) : d[i].tool = key
  THEN [i \in 1..Len(d) |-> IF d[i].tool = key THEN value ELSE d[i]]
  ELSE Append(d, value)

\* a cell of the table: the text and the colour it is printed in
Cell(colour, text) == [colour |-> colour, text |-> text]

\* the row of the table for one record
TableRow(tool, attr_dict) ==
  LET colour == IF ~attr_dict.importable THEN "RED"
                ELSE IF attr_dict.upgrade_required THEN "YELLOW" ELSE "GREEN"
  IN <<Cell(colour, tool), Cell(colour, attr_dict.version),
       Cell(colour, attr_dict.file_path), Cell(colour, attr_dict.branch),
       Cell(colour, attr_dict.describe)>>

\* the record check stores for a tool: the resolver's record and the name
StoredAttrs(tool, attr_dict) ==
  [tool |-> tool, version |-> attr_dict.version, file_path |-> attr_dict.file_path,
   branch |-> attr_dict.branch, describe |-> attr_dict.describe,
   latest_version |-> attr_dict.latest_version,
   upgrade_required |-> attr_dict.upgrade_required,
   importable |-> attr_dict.importable]

\* how a call of the resolver ended, for the history variable
Resolved(o) ==
  [tool |-> o.obs.tool, kind |-> o.kind, import |-> o.obs.import,
   editable |-> o.obs.editable, version |-> o.obs.version,
   latest_version |-> o.obs.latest_version, value |-> o.value]

\* one iteration of the loop of check
CheckTool ==
  /\ pc = "check_loop"
  /\ index <= Len(esm_tools_modules)
  /\ LET tool == esm_tools_modules[index]
     IN \E o \in get_esm_package_attributes(tool, sys_modules, sys_path) :
          /\ sys_modules' = o.sys_modules
          /\ resolved' = Resolved(o)
          /\ IF o.kind = "return"
             THEN /\ attr_dict_all' = DictSet(attr_dict_all, tool, StoredAttrs(tool, o.value))
                  /\ table' = Append(table, TableRow(tool, o.value))
                  /\ extra_messages' =
                       IF o.value.upgrade_required THEN Append(extra_messages, tool)
                       ELSE extra_messages
                  /\ index' = index + 1
                  /\ events' = events \o o.out
                  /\ UNCHANGED <<pc, exit_code, raised>>
             ELSE /\ IF o.kind = "exit" THEN SysExit(0, o.out) ELSE Uncaught(o.value, o.out)
                  /\ UNCHANGED <<attr_dict_all, table, extra_messages, index>>
  /\ UNCHANGED <<argv, sys_path, github_repos, from_github, esm_tools_installed,
                 esm_tools_modules, esm_tools_repo, remove_list>>

Report == [type |-> "report", what |-> "inventory", arg |-> None]

\* check, after the loop: the report is printed and the command returns
CheckReport ==
  /\ pc = "check_loop"
  /\ index > Len(esm_tools_modules)
  /\ SysExit(0, <<Report>>)
  /\ UNCHANGED <<argv, sys_path, github_repos, sys_modules, from_github,
                 esm_tools_installed, esm_tools_modules, index, attr_dict_all, table,
                 extra_messages, esm_tools_repo, remove_list, resolved>>

(***************************************************************************)
(* 4.3 Upgrade dispatcher                                                  *)
(***************************************************************************)
\* how the pip process can end: exit status 0, or non-zero
\* (subprocess.CalledProcessError)
PipResults == {"ok", "CalledProcessError"}

\* how remote.pull() can end
PullResults == {"ok", "GitCommandError"}

PrintLocation(path) == [type |-> "print", what |-> "location", arg |-> path]

\* module.__file__ of a package
ModuleFile(module) == module.path \o <<"/", "_", "_", "i", "n", "i", "t", "_", "_", ".", "p", "y">>

\* "/".join(package.__file__.split("/")[:-2])
CheckoutOf(module) ==
  LET parts == Split(ModuleFile(module), <<"/">>)
  IN Join(SubSeq(parts, 1, Len(parts) - 2), <<"/">>)

\* the target handed to pip: name, or name@version
PipTarget(package, version) ==
  IF version # None THEN package \o <<"@">> \o version ELSE package

\* what a call that returns nothing yields: how it ended, what it printed
\* and ran, and sys.modules afterwards
Result(kind, value, mods, out) ==
  [kind |-> kind, value |-> value, sys_modules |-> mods, out |-> out,
   repo |-> NoRepo]

\* pip_upgrade without the test for an editable install
pip_upgradeAlwaysInstalls(package, version, mods, path) ==
  { [kind |-> "return", value |-> None, sys_modules |-> mods,
     out |-> <<PipInstall(IF version # None THEN package \o <<"@">> \o version
                          ELSE package, r)>>
             \o (IF r = "ok" THEN <<>> ELSE <<Warn("installation_failed", package)>>),
     repo |-> NoRepo]
    : r \in PipResults }

\* pip_upgrade without the except clause: CalledProcessError leaves the call
pip_upgradeUncaught(package, version, mods, path) ==
  IF ~dist_is_editable(package, path)
  THEN { IF r = "ok"
         THEN Result("return", None, mods, <<PipInstall(PipTarget(package, version), r)>>)
         ELSE Result("raise", <<r>>, mods, <<PipInstall(PipTarget(package, version), r)>>)
         : r \in PipResults }
  ELSE { IF imp.status = "ok"
         THEN Result("return", None, Imported(package, imp, mods),
                     <<Warn("editable_no_upgrade", package),
                       PrintLocation(CheckoutOf(imp.module))>>)
         ELSE Result("raise", <<imp.status>>, mods,
                     <<Warn("editable_no_upgrade", package)>>)
         : imp \in import_module(package, mods) }

\* pip_upgrade(package, version); the install runs with or without --user
\* (VIRTUAL_ENV), which changes nothing else
pip_upgrade(package, version, mods, path) ==
  IF ~dist_is_editable(package, path)
  THEN { Result("return", None, mods,
                <<PipInstall(PipTarget(package, version), r)>>
                \o (IF r = "ok" THEN <<>>
                    ELSE <<Warn("installation_failed", package)>>))
         : r \in PipResults }
  ELSE { IF imp.status = "ok"
         THEN Result("return", None, Imported(package, imp, mods),
                     <<Warn("editable_no_upgrade", package),
                       PrintLocation(CheckoutOf(imp.module))>>)
         ELSE Result("raise", <<imp.status>>, mods,
                     <<Warn("editable_no_upgrade", package)>>)
         : imp \in import_module(package, mods) }

\* the git part of pip_or_pull, on the checkout opened at esm_tools_dir
PullUmbrella(tool, repo, mods) ==
  LET dirty_out == IF is_dirty(repo) THEN <<Warn("not_clean", tool)>> ELSE <<>>
  IN IF repo.head = None
     THEN {Result("raise", <<"TypeError">>, mods, dirty_out)}
     ELSE IF repo.head \in {release, develop}
     THEN { IF r = "ok"
            THEN Result("return", None, mods, dirty_out \o <<GitPull(tool)>>)
            ELSE Result("raise", <<r>>, mods, dirty_out \o <<GitPull(tool)>>)
            : r \in PullResults }
     ELSE {Result("return", None, mods, dirty_out \o <<Warn("wrong_branch", tool)>>)}

\* pip_or_pull(tool, version)
pip_or_pull(tool, version, mods, path) ==
  IF tool = esm_tools
  THEN UNION {
         IF o.kind # "return"
         THEN {Result(o.kind, o.value, o.sys_modules, o.out)}
         ELSE UNION {
                IF repo = InvalidRepo
                THEN {Result("raise", <<"InvalidGitRepositoryError">>, o.sys_modules,
                             o.out)}
                ELSE { [r EXCEPT !.out = o.out \o r.out, !.repo = repo]
                       : r \in PullUmbrella(tool, repo, o.sys_modules) }
                : repo \in OpenRepo(o.value.file_path) }
         : o \in get_esm_package_attributes(esm_tools, mods, path) }
  ELSE pip_upgrade(tool, version, mods, path)

\* check_importable_tools(): every tool of the list is imported in turn; a
\* successful import sets the tool's flag, ImportError (ModuleNotFoundError
\* included) is swallowed.  The flags and sys.modules the loop can end with.
RECURSIVE check_importable_tools(_, _, _)
check_importable_tools(list, installed, mods) ==
  IF list = <<>> THEN {[esm_tools_installed |-> installed, sys_modules |-> mods]}
  ELSE UNION {
         check_importable_tools(
           Tail(list),
           IF imp.status = "ok" THEN (Head(list) :> TRUE) @@ installed ELSE installed,
           Imported(Head(list), imp, mods))
         : imp \in import_module(Head(list), mods) }

\* upgrade, up to the dispatch: the package list, the alias of the tool's
\* own name, and the import flags
UpgradeBegin ==
  /\ pc = "upgrade"
  /\ \E r \in get_esm_packages(from_github), again \in get_esm_packages(from_github) :
       IF r.kind = "exit" \/ again.kind = "exit"
       THEN /\ SysExit(1, <<GithubError>>)
            /\ UNCHANGED <<esm_tools_modules, esm_tools_installed, sys_modules>>
       ELSE \E c \in check_importable_tools(again.list, esm_tools_installed,
                                             sys_modules) :
              /\ esm_tools_modules' = r.list
              /\ esm_tools_installed' = c.esm_tools_installed
              /\ sys_modules' = c.sys_modules
              /\ pc' = IF argv.tool_to_upgrade = all_ THEN "upgrade_all"
                       ELSE "upgrade_one"
              /\ UNCHANGED <<events, exit_code, raised>>
  /\ index' = 1
  /\ UNCHANGED <<argv, sys_path, github_repos, from_github, attr_dict_all, table,
                 extra_messages, esm_tools_repo, remove_list, resolved>>

Upgrading(tool) == [type |-> "print", what |-> "upgrading", arg |-> tool]

\* how a call ends the process, or lets it go on at the position next
Continue(r, out, next) ==
  IF r.kind = "return"
  THEN /\ pc' = next
       /\ events' = events \o out
       /\ exit_code' = IF next = "exit" THEN 0 ELSE exit_code
       /\ UNCHANGED raised
  ELSE IF r.kind = "exit" THEN SysExit(0, out)
  ELSE Uncaught(r.value, out)

\* one iteration of the loop of upgrade all
UpgradeTool ==
  /\ pc = "upgrade_all"
  /\ index <= Len(esm_tools_modules)
  /\ LET tool == esm_tools_modules[index]
     IN IF tool \notin DOMAIN esm_tools_installed
        THEN /\ Uncaught(<<"KeyError">>, <<>>)
             /\ UNCHANGED <<sys_modules, index, esm_tools_repo>>
        ELSE IF ~esm_tools_installed[tool]
        THEN /\ index' = index + 1
             /\ UNCHANGED <<pc, events, exit_code, raised, sys_modules,
                            esm_tools_repo>>
        ELSE \E r \in pip_or_pull(tool, None, sys_modules, sys_path) :
               /\ Continue(r, <<Upgrading(tool)>> \o r.out, "upgrade_all")
               /\ sys_modules' = r.sys_modules
               /\ esm_tools_repo' = IF r.repo # NoRepo THEN r.repo ELSE esm_tools_repo
               /\ index' = IF r.kind = "return" THEN index + 1 ELSE index
  /\ UNCHANGED <<argv, sys_path, github_repos, from_github, esm_tools_installed,
                 esm_tools_modules, attr_dict_all, table, extra_messages,
                 remove_list, resolved>>

\* upgrade all, after the loop: the command returns
UpgradeAllDone ==
  /\ pc = "upgrade_all"
  /\ index > Len(esm_tools_modules)
  /\ SysExit(0, <<>>)
  /\ UNCHANGED <<argv, sys_path, github_repos, sys_modules, from_github,
                 esm_tools_installed, esm_tools_modules, index, attr_dict_all, table,
                 extra_messages, esm_tools_repo, remove_list, resolved>>

\* the name and version of a target: split on "==" when the target holds
\* it, else on "="; the two parts are unpacked (ValueError unless there are
\* exactly two)
ParseTarget(target) ==
  IF Contains(target, <<"=">>)
  THEN LET parts == IF Contains(target, <<"=", "=">>)
                    THEN Split(target, <<"=", "=">>)
                    ELSE Split(target, <<"=">>)
       IN IF Len(parts) = 2
          THEN [kind |-> "return", tool |-> parts[1], version |-> parts[2]]
          ELSE [kind |-> "raise", tool |-> target, version |-> None]
  ELSE [kind |-> "return", tool |-> target, version |-> None]

\* the alias: esm_versions is the command of esm_version_checker
Renamed(target) == IF target = esm_versions THEN esm_version_checker ELSE target

\* upgrade of one target
UpgradeOne ==
  /\ pc = "upgrade_one"
  /\ LET parsed == ParseTarget(Renamed(argv.tool_to_upgrade))
     IN IF parsed.kind = "raise"
        THEN /\ Uncaught(<<"ValueError">>, <<>>)
             /\ UNCHANGED <<sys_modules, esm_tools_repo>>
        ELSE IF parsed.tool \notin DOMAIN esm_tools_installed
        THEN /\ Uncaught(<<"KeyError">>, <<>>)
             /\ UNCHANGED <<sys_modules, esm_tools_repo>>
        ELSE IF ~esm_tools_installed[parsed.tool]
        THEN /\ SysExit(0, <<>>)
             /\ UNCHANGED <<sys_modules, esm_tools_repo>>
        ELSE \E r \in pip_or_pull(parsed.tool, parsed.version, sys_modules, sys_path) :
               /\ Continue(r, r.out, "exit")
               /\ sys_modules' = r.sys_modules
               /\ esm_tools_repo' = IF r.repo # NoRepo THEN r.repo ELSE esm_tools_repo
  /\ UNCHANGED <<argv, sys_path, github_repos, from_github, esm_tools_installed,
                 esm_tools_modules, index, attr_dict_all, table, extra_messages,
                 remove_list, resolved>>

(***************************************************************************)
(* 4.5 clean: the removal routine                                          *)
(***************************************************************************)
\* site.getusersitepackages() and the one directory of PATH that exists
UserSite == home_dir \o <<"/", "s", "i", "t", "e">>

BinDir == home_dir \o <<"/", "b", "i", "n">>

\* os.path.join(directory, name)
PathJoin(directory, name) == directory \o <<"/">> \o name

\* names that can lie in the user site-packages directory
SiteEntries ==
  {esm_master, <<"e", "s", "m", "-", "t", "o", "o", "l", "s", ".", "e", "g", "g">>,
   <<"n", "u", "m", "p", "y">>}

\* programs that can lie in the directory of PATH, and whether the user owns
\* them
Binaries ==
  {[name |-> esm_master, user_owns |-> TRUE],
   [name |-> esm_runscripts, user_owns |-> FALSE],
   [name |-> <<"p", "i", "p">>, user_owns |-> TRUE]}

\* the sequences without repetition of at most n elements of a set:
\* os.listdir returns the entries in arbitrary order
RECURSIVE Listings(_, _)
Listings(S, n) ==
  IF n = 0 THEN {<<>>}
  ELSE {<<>>} \cup UNION {{<<x>> \o l : l \in Listings(S \ {x}, n - 1)} : x \in S}

\* the entries clean appends for one entry of the site directory: one for
\* every tool name that occurs in it, with underscores or with hyphens
RECURSIVE MatchesOf(_, _)
MatchesOf(package, tools) ==
  IF tools = <<>> THEN <<>>
  ELSE (IF Contains(package, Head(tools))
           \/ Contains(package, Replace(Head(tools), <<"_">>, <<"-">>))
        THEN <<PathJoin(UserSite, package)>> ELSE <<>>)
       \o MatchesOf(package, Tail(tools))

\* the Python packages of the removal list
RECURSIVE PackagesToRemove(_, _)
PackagesToRemove(entries, tools) ==
  IF entries = <<>> THEN <<>>
  ELSE MatchesOf(Head(entries), tools) \o PackagesToRemove(Tail(entries), tools)

\* the binary programs of the removal list: esm_* programs the user owns
RECURSIVE BinariesToRemove(_)
BinariesToRemove(binaries) ==
  IF binaries = <<>> THEN <<>>
  ELSE (IF StartsWith(Head(binaries).name, <<"e", "s", "m", "_">>)
           /\ Head(binaries).user_owns
        THEN <<PathJoin(BinDir, Head(binaries).name)>> ELSE <<>>)
       \o BinariesToRemove(Tail(binaries))

\* clean, up to the question: the removal list is built and printed
CleanBegin ==
  /\ pc = "clean"
  /\ \E r \in get_esm_packages(from_github) :
       IF r.kind = "exit"
       THEN /\ SysExit(1, <<GithubError>>)
            /\ UNCHANGED remove_list
       ELSE \E entries \in Listings(SiteEntries, MaxEntries),
               binaries \in Listings(Binaries, Cardinality(Binaries)) :
              /\ remove_list' =
                   PackagesToRemove(entries, r.list) \o BinariesToRemove(binaries)
              /\ pc' = "clean_confirm"
              /\ UNCHANGED <<events, exit_code, raised>>
  /\ index' = 1
  /\ UNCHANGED <<argv, sys_path, github_repos, sys_modules, from_github,
                 esm_tools_installed, esm_tools_modules, attr_dict_all, table,
                 extra_messages, esm_tools_repo, resolved>>

Confirm(answer) == [type |-> "confirm", what |-> answer, arg |-> None]

Removing(path) == [type |-> "print", what |-> "removing", arg |-> path]

\* subprocess.run(["rm", "-rf", path]): the exit status is not looked at
Rm(path, status) == [type |-> "rm", what |-> status, arg |-> path]

\* click.confirm("Do you want to continue?"): yes, no, or the prompt is
\* aborted (click.Abort ends the process with status 1)
CleanConfirm ==
  /\ pc = "clean_confirm"
  /\ \E answer \in {"yes", "no", "abort"} :
       IF answer = "yes"
       THEN /\ pc' = "clean_rm"
            /\ events' = Append(events, Confirm(answer))
            /\ UNCHANGED <<exit_code, raised>>
       ELSE SysExit(IF answer = "no" THEN 0 ELSE 1, <<Confirm(answer)>>)
  /\ UNCHANGED <<argv, sys_path, github_repos, sys_modules, from_github,
                 esm_tools_installed, esm_tools_modules, index, attr_dict_all, table,
                 extra_messages, esm_tools_repo, remove_list, resolved>>

\* the removal loop with subprocess.run(..., check=True): a failed rm raises
CleanRemoveStopsOnFailure ==
  /\ pc = "clean_rm"
  /\ index <= Len(remove_list)
  /\ \E status \in {"ok", "failed"} :
       LET out == <<Removing(remove_list[index]), Rm(remove_list[index], status)>>
       IN IF status = "ok"
          THEN /\ events' = events \o out
               /\ UNCHANGED <<pc, exit_code, raised>>
          ELSE Uncaught(<<"CalledProcessError">>, out)
  /\ index' = index + 1
  /\ UNCHANGED <<argv, sys_path, github_repos, sys_modules, from_github,
                 esm_tools_installed, esm_tools_modules, attr_dict_all, table,
                 extra_messages, esm_tools_repo, remove_list, resolved>>

\* one iteration of the removal loop: the path is printed, then removed
CleanRemove ==
  /\ pc = "clean_rm"
  /\ index <= Len(remove_list)
  /\ \E status \in {"ok", "failed"} :
       events' = events \o <<Removing(remove_list[index]),
                             Rm(remove_list[index], status)>>
  /\ index' = index + 1
  /\ UNCHANGED <<pc, argv, sys_path, github_repos, sys_modules, from_github,
                 esm_tools_installed, esm_tools_modules, attr_dict_all, table,
                 extra_messages, esm_tools_repo, remove_list, exit_code, raised, resolved>>

\* clean, after the loop: the command returns
CleanDone ==
  /\ pc = "clean_rm"
  /\ index > Len(remove_list)
  /\ SysExit(0, <<>>)
  /\ UNCHANGED <<argv, sys_path, github_repos, sys_modules, from_github,
                 esm_tools_installed, esm_tools_modules, index, attr_dict_all, table,
                 extra_messages, esm_tools_repo, remove_list, resolved>>

(***************************************************************************)
(* Specifications: the whole script, and the script run with one command   *)
(***************************************************************************)
Next ==
  \/ Main
  \/ CheckBegin
  \/ CheckTool
  \/ CheckReport
  \/ UpgradeBegin
  \/ UpgradeTool
  \/ UpgradeAllDone
  \/ UpgradeOne
  \/ CleanBegin
  \/ CleanConfirm
  \/ CleanRemove
  \/ CleanDone

Spec == Init /\ [][Next]_vars

\* esm_versions check
InitCheck == Init /\ argv \in CheckArgvs

NextCheck ==
  \/ Main
  \/ CheckBegin
  \/ CheckTool
  \/ CheckReport

SpecCheck == InitCheck /\ [][NextCheck]_vars

\* esm_versions upgrade
InitUpgrade == Init /\ argv \in UpgradeArgvs

NextUpgrade ==
  \/ Main
  \/ UpgradeBegin
  \/ UpgradeTool
  \/ UpgradeAllDone
  \/ UpgradeOne

SpecUpgrade == InitUpgrade /\ [][NextUpgrade]_vars

\* esm_versions clean
InitClean == Init /\ argv \in CleanArgvs

NextClean ==
  \/ Main
  \/ CleanBegin
  \/ CleanConfirm
  \/ CleanRemove
  \/ CleanDone

SpecClean == InitClean /\ [][NextClean]_vars

(***************************************************************************)
(* Properties of check (SpecCheck)                                         *)
(***************************************************************************)
\* a value that is there: neither None nor the empty string
Present(x) == x # None /\ x # EmptyStr

\* the last call of the resolver got as far as the upgrade decision: the
\* module was imported and, for an editable install, the lookup returned
ReachedDecision ==
  /\ resolved.kind # "none"
  /\ resolved.import = "ok"
  /\ ~resolved.editable \/ resolved.latest_version # EmptyStr

\* C1: every call of the resolver that imports the module returns a record,
\* and in every record it returns upgrade_required is true exactly when
\* version and latest_version are both present and version is less than
\* latest_version in dotted-numeric order; with version or latest_version
\* absent the call does not raise and upgrade_required is false.
C1_UpgradeRequiredIffBehind ==
  /\ ReachedDecision => resolved.kind = "return"
  /\ resolved.kind = "return" =>
       (resolved.value.upgrade_required <=>
          /\ Present(resolved.value.version)
          /\ Present(resolved.value.latest_version)
          /\ VersionLess(resolved.value.version, resolved.value.latest_version))

\* C2 as claimed: when the import fails with ModuleNotFoundError the
\* resolver returns a record with importable false, upgrade_required false
\* and version, file_path, branch, describe and latest_version all absent.
C2_NotImportableAllAbsent ==
  (resolved.kind # "none" /\ resolved.import = "ModuleNotFoundError") =>
    /\ resolved.kind = "return"
    /\ ~resolved.value.importable
    /\ ~resolved.value.upgrade_required
    /\ resolved.value.version = None
    /\ resolved.value.file_path = None
    /\ resolved.value.branch = None
    /\ resolved.value.describe = None
    /\ resolved.value.latest_version = None

\* C2 amended: when the import fails with ModuleNotFoundError the resolver
\* returns a record with importable false, upgrade_required false,
\* file_path, branch, describe and latest_version None, and version the
\* text "Not installed".
C2_NotImportableRecord ==
  (resolved.kind # "none" /\ resolved.import = "ModuleNotFoundError") =>
    /\ resolved.kind = "return"
    /\ ~resolved.value.importable
    /\ ~resolved.value.upgrade_required
    /\ resolved.value.version = NotInstalledStr
    /\ resolved.value.file_path = None
    /\ resolved.value.branch = None
    /\ resolved.value.describe = None
    /\ resolved.value.latest_version = None

\* the resolver was called for a package of the machine that is not
\* installed, and the record is in the inventory
C2_Witness ==
  /\ resolved.kind = "return"
  /\ resolved.import = "ModuleNotFoundError"
  /\ resolved.tool \in Available
  /\ \E i \in 1..Len(attr_dict_all) :
       attr_dict_all[i].tool = resolved.tool /\ ~attr_dict_all[i].importable

\* the latest-version lookup of a tool failed: the request, or the release
\* link of the page
LookupFailed(tool) ==
  \E i \in 1..Len(events) :
    /\ events[i].type = "warning"
    /\ events[i].what \in {"latest_version_unavailable", "cannot_read_version"}
    /\ events[i].arg = tool

HasRecord(tool) == \E i \in 1..Len(attr_dict_all) : attr_dict_all[i].tool = tool

Printed(e) == \E i \in 1..Len(events) : events[i] = e

\* C7: when the latest-version lookup of a package fails during check, the
\* package gets its record with latest_version absent, the records before
\* it are kept, and the process ends only with the report printed.
C7_LookupFailureDegradesOneRecord ==
  \A tool \in Available :
    LookupFailed(tool) =>
      /\ \E i \in 1..Len(attr_dict_all) :
           /\ attr_dict_all[i].tool = tool
           /\ attr_dict_all[i].latest_version = None
      /\ pc = "exit" => Printed(Report)

\* the package list of this run, when the listing answers
PackageList == IF argv.from_github THEN github_repos ELSE ESM_TOOLS_MODULES

\* C10: check --package NAME with a name that is not on the list ends with
\* a non-zero status before any attribute is resolved; a failed remote
\* discovery ends with a non-zero status and a diagnostic; and the process
\* ends with status 0 only after the report was printed.
C10_ExitStatus ==
  pc = "exit" =>
    /\ (argv.package # None /\ argv.package \notin Range(PackageList)) =>
         (exit_code = 1 /\ resolved = NoCall)
    /\ Printed(GithubError) => exit_code = 1
    /\ exit_code = 0 => Printed(Report)

(***************************************************************************)
(* Properties of upgrade (SpecUpgrade)                                     *)
(***************************************************************************)
\* the target of the command, after the alias
Target == Renamed(argv.tool_to_upgrade)

\* the package of a pip target name or name@version
PackageOf(target) == Split(target, <<"@">>)[1]

Installed(tool) == tool \in DOMAIN esm_tools_installed /\ esm_tools_installed[tool]

\* pip_or_pull was called for the tool: by the loop of upgrade all, or for
\* the one target of the command
UpgradeCalled(tool) ==
  \/ Printed(Upgrading(tool))
  \/ /\ pc = "exit"
     /\ Target # all_
     /\ ParseTarget(Target).kind = "return"
     /\ ParseTarget(Target).tool = tool
     /\ Installed(tool)

PipInstalled(tool) ==
  \E i \in 1..Len(events) :
    events[i].type = "pip_install" /\ PackageOf(events[i].arg) = tool

\* C3: for a package other than esm_tools that is installed in editable
\* mode, upgrade never runs pip install; all it prints about the package is
\* the warning, followed by the location of the checkout.
C3_EditableNeverPipInstalled ==
  \A tool \in Available \ {esm_tools} :
    dist_is_editable(tool, sys_path) =>
      /\ ~PipInstalled(tool)
      /\ ~Printed(Warn("installation_failed", tool))
      /\ UpgradeCalled(tool) =>
           \E i \in 1..(Len(events) - 1) :
             /\ events[i] = Warn("editable_no_upgrade", tool)
             /\ events[i + 1] = PrintLocation(home_dir \o <<"/">> \o tool)

\* upgrade reached an editable package other than esm_tools and ran pip for
\* another package in the same run
C3_Witness ==
  \E tool \in Available \ {esm_tools} :
    /\ dist_is_editable(tool, sys_path)
    /\ UpgradeCalled(tool)
    /\ Printed(Warn("editable_no_upgrade", tool))
    /\ \E other \in Available : PipInstalled(other)

\* C4: when upgrade all ends, the upgrade of every importable package of
\* the list was attempted, whatever failed on the way, and the loop ran to
\* its end.
C4_UpgradeAllAttemptsEveryPackage ==
  (pc = "exit" /\ Target = all_ /\ esm_tools_modules # <<>>) =>
    /\ \A i \in 1..Len(esm_tools_modules) :
         Installed(esm_tools_modules[i]) => Printed(Upgrading(esm_tools_modules[i]))
    /\ index > Len(esm_tools_modules)

\* C5: when the checkout of esm_tools is dirty, pip_or_pull prints the
\* warning, raises nothing and does not pull, whatever the branch that is
\* checked out.
C5_DirtyCheckoutNeverPulled ==
  (/\ esm_tools_repo.kind = "repo"
   /\ is_dirty(esm_tools_repo)
   /\ esm_tools_repo.head # None) =>
    /\ Printed(Warn("not_clean", esm_tools))
    /\ ~Printed(GitPull(esm_tools))
    /\ raised = None

PullCount == Cardinality({i \in 1..Len(events) : events[i] = GitPull(esm_tools)})

\* C6: pip_or_pull pulls esm_tools only on release or develop; on any other
\* branch and on a detached HEAD it prints the warning instead and nothing
\* is raised; on a clean tree on release or develop it pulls exactly once.
C6_PullOnlyOnSanctionedBranch ==
  esm_tools_repo.kind = "repo" =>
    /\ Printed(GitPull(esm_tools)) => esm_tools_repo.head \in {release, develop}
    /\ esm_tools_repo.head \notin {release, develop} =>
         /\ ~Printed(GitPull(esm_tools))
         /\ Printed(Warn("wrong_branch", esm_tools))
         /\ raised = None
    /\ (~is_dirty(esm_tools_repo) /\ esm_tools_repo.head \in {release, develop}) =>
         PullCount = 1

\* a dotted sequence of numbers
IsDottedNumeric(v) ==
  \A i \in 1..Len(Split(v, <<".">>)) : IsNumber(Split(v, <<".">>)[i])

\* the name and version a target stands for: the parts left and right of
\* the first "==" (or of the first "=" when there is no "=="), the version
\* dropped unless it is a dotted sequence of numbers
ExpectedTarget(target) ==
  IF ~Contains(target, <<"=">>) THEN [tool |-> target, version |-> None]
  ELSE LET sep == IF Contains(target, <<"=", "=">>) THEN <<"=", "=">> ELSE <<"=">>
           at == Find(target, sep)
           right == Tail_(target, at + Len(sep))
       IN [tool |-> SubSeq(target, 1, at - 1),
           version |-> IF IsDottedNumeric(right) THEN right ELSE None]

\* C8: the target of upgrade is parsed without raising, and pip is asked
\* for the name left of the first separator, at the version right of it when
\* that is a dotted sequence of numbers and at the latest version otherwise.
C8_TargetParsing ==
  Target # all_ =>
    /\ raised # <<"ValueError">>
    /\ \A i \in 1..Len(events) :
         events[i].type = "pip_install" =>
           events[i].arg = PipTarget(ExpectedTarget(Target).tool,
                                     ExpectedTarget(Target).version)

(***************************************************************************)
(* Properties of clean (SpecClean)                                         *)
(***************************************************************************)
IsRm(e) == e.type = "rm"

\* the paths rm was run on, in order
Removed == [i \in 1..Len(SelectSeq(events, IsRm)) |-> SelectSeq(events, IsRm)[i].arg]

\* C9: rm runs only after the question was answered yes, and never after
\* another answer; every rm comes right after the line that prints its
\* path; the paths are removed in the order of the list, and after a yes
\* rm was run on every path of the list when the command ends, whether or
\* not an earlier rm failed.
C9_RemovalAfterConfirmation ==
  /\ \A i \in 1..Len(events) :
       events[i].type = "rm" =>
         /\ \E c \in 1..(i - 1) : events[c] = Confirm("yes")
         /\ events[i - 1] = Removing(events[i].arg)
  /\ (Printed(Confirm("no")) \/ Printed(Confirm("abort"))) => Removed = <<>>
  /\ pc = "clean_rm" => Removed = SubSeq(remove_list, 1, index - 1)
  /\ (pc = "exit" /\ Printed(Confirm("yes"))) => Removed = remove_list

\* clean ended after a failed rm that was not the last of the list
C9_Witness ==
  /\ pc = "exit"
  /\ Printed(Confirm("yes"))
  /\ Len(remove_list) >= 2
  /\ \E i \in 1..Len(events) :
       /\ events[i].type = "rm"
       /\ events[i].what = "failed"
       /\ \E j \in (i + 1)..Len(events) : events[j].type = "rm"

(***************************************************************************)
(* Properties of the inventory of check (SpecCheck)                        *)
(***************************************************************************)
CheckCompleted == pc = "exit" /\ Printed(Report)

\* one record and one row for every name of the list, in the order of the list
CompleteInOrder ==
  /\ Len(attr_dict_all) = Len(esm_tools_modules)
  /\ Len(table) = Len(esm_tools_modules)
  /\ \A i \in 1..Len(esm_tools_modules) :
       /\ attr_dict_all[i].tool = esm_tools_modules[i]
       /\ table[i][1].text = esm_tools_modules[i]
       /\ table[i][2].text = attr_dict_all[i].version
       /\ table[i][3].text = attr_dict_all[i].file_path
       /\ table[i][4].text = attr_dict_all[i].branch
       /\ table[i][5].text = attr_dict_all[i].describe

\* the record of an importable package: a path, and either no checkout
\* fields (not editable) or all of them together with both versions
ImportableShape(r) ==
  /\ r.importable
  /\ Present(r.file_path)
  /\ \/ /\ r.branch = EmptyStr /\ r.describe = EmptyStr /\ r.latest_version = EmptyStr
        /\ ~r.upgrade_required
     \/ /\ Present(r.branch) /\ Present(r.describe)
        /\ Present(r.version) /\ Present(r.latest_version)
        /\ r.upgrade_required <=> VersionLess(r.version, r.latest_version)

\* C11 as stated: when check completes the inventory has one record per
\* name of the list, in list order, and every record is either importable
\* and fully populated or not importable with every other field absent.
C11_InventoryAllAbsentShape ==
  CheckCompleted =>
    /\ CompleteInOrder
    /\ \A i \in 1..Len(attr_dict_all) :
         \/ ImportableShape(attr_dict_all[i])
         \/ /\ ~attr_dict_all[i].importable
            /\ ~attr_dict_all[i].upgrade_required
            /\ ~Present(attr_dict_all[i].version)
            /\ ~Present(attr_dict_all[i].file_path)
            /\ ~Present(attr_dict_all[i].branch)
            /\ ~Present(attr_dict_all[i].describe)
            /\ ~Present(attr_dict_all[i].latest_version)

\* C11, amended: when check completes the inventory has one record and one
\* row per name of the list, in list order, and every record is either
\* importable and fully populated or the not-importable record: version
\* "Not installed", the other fields None, both flags false.
C11_InventoryCompleteOrdered ==
  CheckCompleted =>
    /\ CompleteInOrder
    /\ \A i \in 1..Len(attr_dict_all) :
         \/ ImportableShape(attr_dict_all[i])
         \/ /\ ~attr_dict_all[i].importable
            /\ ~attr_dict_all[i].upgrade_required
            /\ attr_dict_all[i].version = NotInstalledStr
            /\ attr_dict_all[i].file_path = None
            /\ attr_dict_all[i].branch = None
            /\ attr_dict_all[i].describe = None
            /\ attr_dict_all[i].latest_version = None

\* check completed over the whole list with a not-importable record, an
\* editable record and a record of a plain install
C11_Witness ==
  /\ CheckCompleted
  /\ Len(attr_dict_all) >= 3
  /\ \E i, j, k \in 1..Len(attr_dict_all) :
       /\ ~attr_dict_all[i].importable
       /\ attr_dict_all[j].importable /\ Present(attr_dict_all[j].latest_version)
       /\ attr_dict_all[k].importable /\ attr_dict_all[k].branch = EmptyStr

(***************************************************************************)
(* Properties of pip_upgrade (SpecUpgrade)                                 *)
(***************************************************************************)
\* the positions of the pip installs of a tool
PipInstallsOf(tool) ==
  {i \in 1..Len(events) :
     events[i].type = "pip_install" /\ PackageOf(events[i].arg) = tool}

\* the version pip_or_pull is called with
RequestedVersion == IF Target = all_ THEN None ELSE ParseTarget(Target).version

\* C12: for a package that is neither editable nor esm_tools, pip_upgrade
\* runs pip exactly once, on name@version when a version was given and on
\* the name otherwise; a failing pip is caught: the diagnostic naming the
\* package without the version follows at once, nothing is raised, and the
\* caller goes on (the loop of upgrade all reaches its end, the command
\* ends with status 0).
C12_PipFailureCaught ==
  /\ raised # <<"CalledProcessError">>
  /\ \A i \in 1..Len(events) :
       events[i].type = "pip_install" =>
         (events[i].what # "ok" <=>
            /\ i < Len(events)
            /\ events[i + 1] = Warn("installation_failed", PackageOf(events[i].arg)))
  /\ \A tool \in Available \ {esm_tools} :
       ~dist_is_editable(tool, sys_path) =>
         IF UpgradeCalled(tool)
         THEN /\ Cardinality(PipInstallsOf(tool)) = 1
              /\ \A i \in PipInstallsOf(tool) :
                   events[i].arg = PipTarget(tool, RequestedVersion)
         ELSE PipInstallsOf(tool) = {}
  /\ (events # <<>> /\ events[Len(events)].what = "installation_failed") =>
       /\ raised = None
       /\ pc = "exit" =>
            /\ exit_code = 0
            /\ Target = all_ => index > Len(esm_tools_modules)

\* upgrade all ended after a pip install that failed and a later pip
\* install of another package
C12_Witness ==
  /\ pc = "exit"
  /\ Target = all_
  /\ \E i \in 1..Len(events) :
       /\ events[i].type = "pip_install"
       /\ events[i].what # "ok"
       /\ \E j \in (i + 1)..Len(events) : events[j].type = "pip_install"

(***************************************************************************)
(* Failure policy of the resolver (SpecCheck)                              *)
(***************************************************************************)
\* C13: the resolver turns a failed import into the not-importable record
\* only for ModuleNotFoundError; any other failure of the import or of the
\* extraction steps leaves it as AttributeResolutionError, never as a
\* record and never as an exception of another kind.
C13_OnlyAttributeResolutionErrorEscapes ==
  resolved # NoCall =>
    /\ (resolved.kind = "return" /\ ~resolved.value.importable) =>
         resolved.import = "ModuleNotFoundError"
    /\ resolved.import = "ModuleNotFoundError" =>
         (resolved.kind = "return" /\ ~resolved.value.importable)
    /\ resolved.kind = "raise" => resolved.value = <<"AttributeResolutionError">>
    /\ resolved.kind = "return" => resolved.value.describe # ErrorStr

(***************************************************************************)
(* Properties of the editable-install detector (SpecCheck)                 *)
(***************************************************************************)
\* C14: editable_dist_location never raises: with a marker on sys.path the
\* resolver that calls it does not end with the IndexError or OSError of
\* reading the marker, and without a marker the only result is None;
\* dist_is_editable is true exactly when some directory holds the marker.
C14_EditableLocationNeverRaises ==
  /\ \A tool \in Available :
       /\ dist_is_editable(tool, sys_path) <=>
            \E i \in 1..Len(sys_path) : egg_link_name(tool) \in sys_path[i]
       /\ ~dist_is_editable(tool, sys_path) =>
            editable_dist_location(tool, sys_path) = {"None"}
  /\ (resolved # NoCall /\ resolved.editable /\ resolved.kind = "raise") =>
       resolved.value \notin {<<"IndexError">>, <<"OSError">>}

(***************************************************************************)
(* The import flags of upgrade (SpecUpgrade)                               *)
(***************************************************************************)
\* the events of an upgrade action on a tool
IsUpgradeAction(e) ==
  \/ e.type \in {"pip_install", "git_pull"}
  \/ e.type = "print" /\ e.what = "upgrading"
  \/ e.type = "warning" /\ e.what \in {"editable_no_upgrade", "not_clean", "wrong_branch"}

\* C15: the flags of esm_tools_installed exist for exactly the names of
\* the package list, a flag is true only after the tool was imported in
\* this run, upgrade acts only on tools whose flag is true, and looking up
\* the flag of the target never fails, whatever the name.
C15_UpgradeOnlyImportedTools ==
  /\ DOMAIN esm_tools_installed \in {{}, Range(PackageList)}
  /\ \A tool \in DOMAIN esm_tools_installed :
       esm_tools_installed[tool] =>
         (tool \in DOMAIN sys_modules /\ pc \notin {"main", "upgrade"})
  /\ \A i \in 1..Len(events) :
       IsUpgradeAction(events[i]) => Installed(PackageOf(events[i].arg))
  /\ raised # <<"KeyError">>

====
